---- MODULE Spec2Model ----
(***************************************************************************)
(* Container status checker (container_status_checker.py).                 *)
(*                                                                         *)
(* Spec        main(): the three checkers are built, then queried either   *)
(*             in parallel (ThreadPoolExecutor + as_completed) or one      *)
(*             after the other with a shrinking remaining_containers list, *)
(*             and their results are merged into container_results.        *)
(* SpecTrapac  TrapacChecker.check_containers(): the batch loop and the    *)
(*             reCAPTCHA wait loop, step by step.                          *)
(***************************************************************************)
EXTENDS Integers, Sequences, FiniteSets, TLC

VARIABLES
    parallel,             \* args.parallel
    container_numbers,    \* main: the normalized command-line identifiers
    pc,                   \* position of main()
    driver,               \* per checker: "none" | "open" | "quit" (driver.quit called)
    container_results,    \* main: dict container -> [ContainerStatus]
    remaining_containers, \* main, sequential branch
    new_remaining,        \* main, sequential branch
    idx,                  \* checker whose results are being processed (1..3; 4 = loop over)
    ri,                   \* position of `for result in results`
    fstate,               \* per future: "pending" | "running" | "waiting" (in the
                          \* reCAPTCHA wait) | "ok" | "raised"
    completed,            \* futures in the order they finished
    finished,             \* as_completed: futures that finished since it was called, oldest first
    early,                \* as_completed: futures that finished before it was called
    order,                \* checkers in the order their results reached the merge loop
    asked,                \* checkers whose check_containers was called
    queried,              \* per checker: the list passed to check_containers
    ret,                  \* per checker: the list check_containers returned
    t_numbers,            \* TrapacChecker.check_containers: container_numbers
    t_pc,                 \* TrapacChecker.check_containers: position
    t_i,                  \* batch loop variable i
    t_results,            \* results
    t_submitted,          \* batches entered into the form (send_keys), in order
    t_timeouts,           \* values of i whose reCAPTCHA wait raised TimeoutException
    start_time,           \* reCAPTCHA wait: start_time
    now,                  \* time.time(), whole seconds
    cleared,              \* a poll of the current wait found the results table
    t_raised,             \* an exception reached the outer except of check_containers
    w_s,                  \* TideworksChecker.check_containers: the checker (self)
    w_numbers,            \* container_numbers
    w_pc,                 \* position
    w_login,              \* how self.login() ended
    w_entered,            \* lists typed into the numbers field (send_keys), in order
    w_results,            \* results
    w_trace,              \* calls made so far: "login", "query"
    r_args,               \* run.py: the parsed command line
    r_pc,                 \* run.py: position in main
    r_i,                  \* run.py: loop variable of the inbound / outbound loop
    r_actions,            \* run.py: calls of WMS methods made so far
    r_errors,             \* run.py: "Error: ... requires '-c' option." messages printed
    m_numbers,            \* both modes on one input: container_numbers
    m_found,              \* per checker: the identifiers its terminal has data for
    m_login,              \* per checker: whether its login is accepted
    m_pc,                 \* "seq", then "par", then "done"
    m_idx,                \* sequential run: index of the next checker
    m_remaining,          \* sequential run: remaining_containers
    m_seq,                \* sequential run: container_results
    m_left,               \* parallel run: tasks whose results are not merged yet
    m_par                 \* parallel run: container_results

mainVars == <<parallel, container_numbers, pc, driver, container_results,
              remaining_containers, new_remaining, idx, ri, fstate, completed,
              finished, early, order, asked, queried, ret>>
trapacVars == <<t_numbers, t_pc, t_i, t_results, t_submitted, t_timeouts,
                start_time, now, cleared, t_raised>>
tideVars == <<w_s, w_numbers, w_pc, w_login, w_entered, w_results, w_trace>>
runVars == <<r_args, r_pc, r_i, r_actions, r_errors>>
modeVars == <<m_numbers, m_found, m_login, m_pc, m_idx, m_remaining, m_seq,
              m_left, m_par>>
vars == <<mainVars, trapacVars, tideVars, runVars, modeVars>>

-----------------------------------------------------------------------------
(* Bounds *)

(* Rows a result page can show. *)
MaxRows == 1

(* Longest list passed to TrapacChecker.check_containers. *)
MaxN == 21

(* Longest input list on which the two modes are compared. *)
MaxModeLen == 2

(* Most values given to -c and to -d on the command line of run.py. *)
MaxContainers == 2

(* Longest list passed to TideworksChecker.check_containers, and the number *)
(* of distinct identifiers in it.                                            *)
MaxW == 2

(* Longest time, in seconds, a poll that finds no table takes (its timeout  *)
(* is 1 second). *)
MaxPollSeconds == 2

(* What time.time() can show when a wait starts. *)
ClockAtStart == {0, 7}

(* Command lines: strings as sequences of characters.  One identifier, two  *)
(* spellings of the same identifier, two different identifiers.              *)
ArgLists == { << <<"a">> >>,
              << <<"a">>, <<"A", " ">> >>,
              << <<"a">>, <<" ", "b">> >> }

-----------------------------------------------------------------------------
(* Strings *)

Range(s) == { s[i] : i \in DOMAIN s }

upper(c) == CASE c = "a" -> "A" [] c = "b" -> "B" [] OTHER -> c

RECURSIVE lstrip(_)
lstrip(s) == IF s # <<>> /\ Head(s) = " " THEN lstrip(Tail(s)) ELSE s

RECURSIVE rstrip(_)
rstrip(s) == IF s # <<>> /\ s[Len(s)] = " " THEN rstrip(SubSeq(s, 1, Len(s) - 1)) ELSE s

strip(s) == rstrip(lstrip(s))

(* c.strip().upper() *)
Normalize(c) == [i \in 1..Len(strip(c)) |-> upper(strip(c)[i])]

(* [c.strip().upper() for c in args.container_numbers] *)
NormalizeAll(args) == [i \in 1..Len(args) |-> Normalize(args[i])]

-----------------------------------------------------------------------------
(* Records and checkers *)

NOT_FOUND == "NOT FOUND"
LOGIN_FAILED == "LOGIN FAILED"

Checkers == 1..3

(* ThreadPoolExecutor(max_workers=3) *)
max_workers == 3
terminal_name(s) == CASE s = 1 -> "Trapac"
                      [] s = 2 -> "Shippers Transport"
                      [] OTHER -> "Oakland International"

(* A ContainerStatus object.  origin stands for the identity of the object:  *)
(* the checker that created it.                                              *)
ContainerStatus(container, terminal, s) ==
    [container_number |-> container, terminal |-> terminal, origin |-> s]

(* found_containers = {r.container_number for r in results}; one NOT FOUND  *)
(* record per entry of container_numbers that is not in it.                 *)
RECURSIVE Missing(_, _, _)
Missing(numbers, found, s) ==
    IF numbers = <<>> THEN <<>>
    ELSE (IF Head(numbers) \in found THEN <<>>
          ELSE <<ContainerStatus(Head(numbers), NOT_FOUND, s)>>)
         \o Missing(Tail(numbers), found, s)

(* check_containers without the fill-in loop *)
AddMissing_None(numbers, results, s) == results

AddMissing(numbers, results, s) ==
    results \o Missing(numbers, { results[k].container_number : k \in DOMAIN results }, s)

(* The rows a checker parses from the result page: any list of at most      *)
(* MaxRows found and not-found rows for identifiers of this run.             *)
PageRows(s, numbers) ==
    LET recs == { ContainerStatus(c, t, s) :
                    c \in Range(container_numbers), t \in {terminal_name(s), NOT_FOUND} }
    IN  UNION { [1..n -> recs] : n \in 0..MaxRows }

(* TrapacChecker.check_containers seen from main: whatever the try block    *)
(* collected, then the fill-in.                                              *)
TrapacCheck(numbers, rows) == AddMissing(numbers, rows, 1)

(* TideworksChecker.check_containers *)
TideworksCheck(s, numbers, login, rows) ==
    IF ~login
    THEN [k \in 1..Len(numbers) |-> ContainerStatus(numbers[k], LOGIN_FAILED, s)]
    ELSE AddMissing(numbers, rows, s)

(* The lists checker s can return for `numbers`. *)
CheckContainers(s, numbers) ==
    IF s = 1 THEN { TrapacCheck(numbers, rows) : rows \in PageRows(1, numbers) }
    ELSE { TideworksCheck(s, numbers, login, rows) :
             login \in BOOLEAN, rows \in PageRows(s, numbers) }

-----------------------------------------------------------------------------
(* The merge *)

(* container_results[container].append(result): results pile up under a key *)
Put_Append(results, container, result) ==
    [c \in DOMAIN results \cup {container} |->
        IF c = container
        THEN (IF c \in DOMAIN results THEN results[c] ELSE <<>>) \o <<result>>
        ELSE results[c]]

(* container_results[container] = [result] *)
Put(results, container, result) ==
    [c \in DOMAIN results \cup {container} |->
        IF c = container THEN <<result>> ELSE results[c]]

(* the merge without `elif container not in container_results` *)
ParallelStore_NoGuard(results, result) ==
    Put(results, result.container_number, result)

(* a merge that never replaces an entry *)
ParallelStore_KeepFirst(results, result) ==
    IF result.container_number \notin DOMAIN results
    THEN Put(results, result.container_number, result)
    ELSE results

(* main, parallel branch: the body of `for result in results` *)
ParallelStore(results, result) ==
    IF result.terminal # NOT_FOUND
    THEN Put(results, result.container_number, result)
    ELSE IF result.container_number \notin DOMAIN results
         THEN Put(results, result.container_number, result)
         ELSE results

(* the merge without `elif container not in container_results` *)
SequentialStore_NoGuard(results, result) ==
    Put(results, result.container_number, result)

(* a merge that never replaces an entry *)
SequentialStore_KeepFirst(results, result) ==
    IF result.container_number \notin DOMAIN results
    THEN Put(results, result.container_number, result)
    ELSE results

(* main, sequential branch: the body of `for result in results` *)
SequentialStore(results, result) ==
    IF result.terminal # NOT_FOUND
    THEN Put(results, result.container_number, result)
    ELSE IF result.container_number \notin DOMAIN results
         THEN Put(results, result.container_number, result)
         ELSE results

(* list.remove(x): the first occurrence only *)
RECURSIVE remove(_, _)
remove(list, x) ==
    IF list = <<>> THEN <<>>
    ELSE IF Head(list) = x THEN Tail(list)
    ELSE <<Head(list)>> \o remove(Tail(list), x)

(* main, sequential branch: new_remaining after one result *)
SequentialRemaining(list, result) ==
    IF result.terminal # NOT_FOUND /\ result.container_number \in Range(list)
    THEN remove(list, result.container_number)
    ELSE list

-----------------------------------------------------------------------------
(* main *)

TrapacIdle ==
    /\ t_numbers = <<>> /\ t_pc = "off" /\ t_i = 0 /\ t_results = <<>>
    /\ t_submitted = <<>> /\ t_timeouts = {} /\ start_time = 0 /\ now = 0
    /\ cleared = FALSE /\ t_raised = FALSE

TideworksIdle ==
    /\ w_s = 2 /\ w_numbers = <<>> /\ w_pc = "off" /\ w_login = "none"
    /\ w_entered = <<>> /\ w_results = <<>> /\ w_trace = <<>>

NoArgs == [query |-> FALSE, inbound |-> FALSE, outbound |-> FALSE,
           containers |-> 0, date |-> 0]

RunIdle ==
    /\ r_args = NoArgs /\ r_pc = "off" /\ r_i = 0
    /\ r_actions = <<>> /\ r_errors = {}

ModesIdle ==
    /\ m_numbers = <<>> /\ m_found = [s \in Checkers |-> {}]
    /\ m_login = [s \in Checkers |-> TRUE] /\ m_pc = "off" /\ m_idx = 0
    /\ m_remaining = <<>> /\ m_seq = <<>> /\ m_left = {} /\ m_par = <<>>

Init ==
    /\ parallel \in BOOLEAN
    /\ \E args \in ArgLists : container_numbers = NormalizeAll(args)
    /\ pc = "start"
    /\ driver = [s \in Checkers |-> "none"]
    /\ container_results = <<>>
    /\ remaining_containers = <<>>
    /\ new_remaining = <<>>
    /\ idx = 0
    /\ ri = 0
    /\ fstate = [s \in Checkers |-> "pending"]
    /\ completed = <<>>
    /\ finished = <<>>
    /\ early = {}
    /\ order = <<>>
    /\ asked = {}
    /\ queried = [s \in Checkers |-> <<>>]
    /\ ret = [s \in Checkers |-> <<>>]
    /\ TrapacIdle
    /\ TideworksIdle
    /\ RunIdle
    /\ ModesIdle

(* checkers = [TrapacChecker(), TideworksChecker(..), TideworksChecker(..)] *)
InitCheckers ==
    /\ pc = "start"
    /\ driver' = [s \in Checkers |-> "open"]
    /\ container_results' = <<>>
    /\ IF parallel
       THEN /\ pc' = "submit"
            /\ UNCHANGED <<remaining_containers, idx>>
       ELSE /\ pc' = "seq"
            /\ remaining_containers' = container_numbers
            /\ idx' = 1
    /\ UNCHANGED <<parallel, container_numbers, new_remaining, ri, fstate, finished,
                   early, order, asked, queried, ret, completed, trapacVars, tideVars, runVars, modeVars>>

(* setup_driver of the k-th checker raises: webdriver.Chrome(...) fails.    *)
(* Nothing in main catches it.                                               *)
InitCheckersRaise(k) ==
    /\ pc = "start"
    /\ driver' = [s \in Checkers |-> IF s < k THEN "open" ELSE "none"]
    /\ pc' = "aborted"
    /\ UNCHANGED <<parallel, container_numbers, container_results,
                   remaining_containers, new_remaining, idx, ri, fstate, finished,
                   early, order, asked, queried, ret, completed, trapacVars, tideVars, runVars, modeVars>>

(* executor.submit(check_terminal, checker, container_numbers) for each checker *)
Submit ==
    /\ pc = "submit"
    /\ fstate' = [s \in Checkers |-> "running"]
    /\ pc' = "as_completed"
    /\ UNCHANGED <<parallel, container_numbers, driver, container_results,
                   remaining_containers, new_remaining, idx, ri, finished,
                   early, order, asked, queried, ret, completed, trapacVars, tideVars, runVars, modeVars>>

(* a pool with a single worker thread *)
HasWorker_Single(s) ==
    Cardinality({ t \in Checkers : t < s /\ fstate[t] \in {"running", "waiting"} })
        < 1

(* ThreadPoolExecutor(max_workers=3): a submitted task runs once fewer than *)
(* max_workers tasks submitted before it still occupy a worker               *)
HasWorker(s) ==
    Cardinality({ t \in Checkers : t < s /\ fstate[t] \in {"running", "waiting"} })
        < max_workers

(* the Trapac task reaches the reCAPTCHA wait loop and blocks in it *)
trapac_wait ==
    /\ fstate[1] = "running"
    /\ HasWorker(1)
    /\ fstate' = [fstate EXCEPT ![1] = "waiting"]
    /\ UNCHANGED <<parallel, container_numbers, pc, driver, container_results,
                   remaining_containers, new_remaining, idx, ri, finished, early,
                   order, asked, queried, ret, completed, trapacVars, tideVars, runVars, modeVars>>

(* a worker that stores its own first record in the shared mapping *)
check_terminal_Shared(s) ==
    /\ fstate[s] \in {"running", "waiting"}
    /\ HasWorker(s)
    /\ \E results \in CheckContainers(s, container_numbers) :
          /\ ret' = [ret EXCEPT ![s] = results]
          /\ fstate' = [fstate EXCEPT ![s] = "ok"]
          /\ container_results' =
                IF results = <<>> THEN container_results
                ELSE ParallelStore(container_results, results[1])
    /\ asked' = asked \cup {s}
    /\ queried' = [queried EXCEPT ![s] = container_numbers]
    /\ driver' = [driver EXCEPT ![s] = "quit"]
    /\ completed' = Append(completed, s)
    /\ IF pc = "as_completed"
       THEN early' = early \cup {s} /\ finished' = finished
       ELSE finished' = Append(finished, s) /\ early' = early
    /\ UNCHANGED <<parallel, container_numbers, pc,
                   remaining_containers, new_remaining, idx, ri, order,
                   trapacVars, tideVars, runVars, modeVars>>

(* check_terminal(checker, container_numbers), run by a worker thread, up   *)
(* to its return (for Trapac: from the wait, whether cleared or timed out)   *)
check_terminal(s) ==
    /\ fstate[s] \in {"running", "waiting"}
    /\ HasWorker(s)
    /\ \/ \E results \in CheckContainers(s, container_numbers) :
             /\ ret' = [ret EXCEPT ![s] = results]
             /\ fstate' = [fstate EXCEPT ![s] = "ok"]
       \/ \* checker.driver.quit() raises in the finally block: the return
          \* value is lost and the future holds the exception
          /\ fstate' = [fstate EXCEPT ![s] = "raised"]
          /\ ret' = ret
    /\ asked' = asked \cup {s}
    /\ queried' = [queried EXCEPT ![s] = container_numbers]
    /\ driver' = [driver EXCEPT ![s] = "quit"]
    /\ completed' = Append(completed, s)
    /\ IF pc = "as_completed"
       THEN early' = early \cup {s} /\ finished' = finished
       ELSE finished' = Append(finished, s) /\ early' = early
    /\ UNCHANGED <<parallel, container_numbers, pc, container_results,
                   remaining_containers, new_remaining, idx, ri, order,
                   trapacVars, tideVars, runVars, modeVars>>

(* as_completed(future_to_checker): the futures that are already finished   *)
(* are yielded first, in no particular order, the others as they complete.  *)
as_completed ==
    /\ pc = "as_completed"
    /\ pc' = "join"
    /\ UNCHANGED <<parallel, container_numbers, driver, container_results,
                   remaining_containers, new_remaining, idx, ri, fstate, finished,
                   early, order, asked, queried, ret, completed, trapacVars, tideVars, runVars, modeVars>>

NextFuture(s) ==
    IF early # {} THEN s \in early
    ELSE finished # <<>> /\ s = Head(finished)

(* the future leaves as_completed's pending set *)
Yield(s) ==
    IF s \in early
    THEN early' = early \ {s} /\ finished' = finished
    ELSE finished' = Tail(finished) /\ early' = early

(* for future in as_completed(..): results = future.result() *)
JoinResult(s) ==
    /\ pc = "join"
    /\ NextFuture(s)
    /\ fstate[s] = "ok"
    /\ Yield(s)
    /\ order' = Append(order, s)
    /\ idx' = s
    /\ ri' = 1
    /\ pc' = IF ret[s] = <<>> THEN "join" ELSE "merge"
    /\ UNCHANGED <<parallel, container_numbers, driver, container_results,
                   remaining_containers, new_remaining, fstate,
                   asked, queried, ret, completed, trapacVars, tideVars, runVars, modeVars>>

(* future.result() raises what check_terminal raised; main logs it *)
JoinRaised(s) ==
    /\ pc = "join"
    /\ NextFuture(s)
    /\ fstate[s] = "raised"
    /\ Yield(s)
    /\ order' = Append(order, s)
    /\ UNCHANGED <<parallel, container_numbers, pc, driver, container_results,
                   remaining_containers, new_remaining, idx, ri, fstate,
                   asked, queried, ret, completed, trapacVars, tideVars, runVars, modeVars>>

(* one iteration of `for result in results` in the parallel branch *)
ParallelMerge ==
    /\ pc = "merge"
    /\ container_results' = ParallelStore(container_results, ret[idx][ri])
    /\ ri' = ri + 1
    /\ pc' = IF ri = Len(ret[idx]) THEN "join" ELSE "merge"
    /\ UNCHANGED <<parallel, container_numbers, driver, remaining_containers,
                   new_remaining, idx, fstate, finished, early, order, asked,
                   queried, ret, completed, trapacVars, tideVars, runVars, modeVars>>

(* the with block left while futures are still to be yielded *)
JoinEnd_Early ==
    /\ pc = "join"
    /\ pc' = "output"
    /\ UNCHANGED <<parallel, container_numbers, driver, container_results,
                   remaining_containers, new_remaining, idx, ri, fstate, finished,
                   early, order, asked, queried, ret, completed, trapacVars, tideVars, runVars, modeVars>>

(* every future was yielded: the with block ends *)
JoinEnd ==
    /\ pc = "join"
    /\ Len(order) = Cardinality(Checkers)
    /\ pc' = "output"
    /\ UNCHANGED <<parallel, container_numbers, driver, container_results,
                   remaining_containers, new_remaining, idx, ri, fstate, finished,
                   early, order, asked, queried, ret, completed, trapacVars, tideVars, runVars, modeVars>>

(* the sequential loop without `if not remaining_containers: break` *)
SeqQuery_NoBreak ==
    /\ pc = "seq"
    /\ idx \in Checkers
    /\ \E results \in CheckContainers(idx, remaining_containers) :
          ret' = [ret EXCEPT ![idx] = results]
    /\ asked' = asked \cup {idx}
    /\ queried' = [queried EXCEPT ![idx] = remaining_containers]
    /\ order' = Append(order, idx)
    /\ new_remaining' = remaining_containers
    /\ ri' = 1
    /\ pc' = "seq_merge"
    /\ UNCHANGED <<parallel, container_numbers, driver, container_results,
                   remaining_containers, idx, fstate, finished, early, completed, trapacVars, tideVars, runVars, modeVars>>

(* sequential loop: results = checker.check_containers(remaining_containers) *)
SeqQuery ==
    /\ pc = "seq"
    /\ idx \in Checkers
    /\ remaining_containers # <<>>
    /\ \E results \in CheckContainers(idx, remaining_containers) :
          ret' = [ret EXCEPT ![idx] = results]
    /\ asked' = asked \cup {idx}
    /\ queried' = [queried EXCEPT ![idx] = remaining_containers]
    /\ order' = Append(order, idx)
    /\ new_remaining' = remaining_containers
    /\ ri' = 1
    /\ pc' = "seq_merge"
    /\ UNCHANGED <<parallel, container_numbers, driver, container_results,
                   remaining_containers, idx, fstate, finished, early, completed, trapacVars, tideVars, runVars, modeVars>>

(* one iteration of `for result in results` in the sequential branch *)
SeqMerge ==
    /\ pc = "seq_merge"
    /\ ri <= Len(ret[idx])
    /\ new_remaining' = SequentialRemaining(new_remaining, ret[idx][ri])
    /\ container_results' = SequentialStore(container_results, ret[idx][ri])
    /\ ri' = ri + 1
    /\ UNCHANGED <<parallel, container_numbers, pc, driver, remaining_containers,
                   idx, fstate, finished, early, order, asked, queried, ret,
                   completed, trapacVars, tideVars, runVars, modeVars>>

(* remaining_containers = new_remaining; finally: checker.driver.quit() *)
SeqFinish ==
    /\ pc = "seq_merge"
    /\ ri > Len(ret[idx])
    /\ remaining_containers' = new_remaining
    /\ driver' = [driver EXCEPT ![idx] = "quit"]
    /\ \E quitOk \in BOOLEAN :
          IF quitOk THEN pc' = "seq" /\ idx' = idx + 1
          ELSE pc' = "aborted" /\ idx' = idx
    /\ UNCHANGED <<parallel, container_numbers, container_results, new_remaining,
                   ri, fstate, finished, early, order, asked, queried, ret,
                   completed, trapacVars, tideVars, runVars, modeVars>>

(* if not remaining_containers: break; finally: checker.driver.quit() *)
SeqBreak ==
    /\ pc = "seq"
    /\ idx \in Checkers
    /\ remaining_containers = <<>>
    /\ driver' = [driver EXCEPT ![idx] = "quit"]
    /\ \E quitOk \in BOOLEAN : pc' = IF quitOk THEN "output" ELSE "aborted"
    /\ UNCHANGED <<parallel, container_numbers, container_results,
                   remaining_containers, new_remaining, idx, ri, fstate, finished,
                   early, order, asked, queried, ret, completed, trapacVars, tideVars, runVars, modeVars>>

(* the for loop is exhausted *)
SeqEnd ==
    /\ pc = "seq"
    /\ idx \notin Checkers
    /\ pc' = "output"
    /\ UNCHANGED <<parallel, container_numbers, driver, container_results,
                   remaining_containers, new_remaining, idx, ri, fstate, finished,
                   early, order, asked, queried, ret, completed, trapacVars, tideVars, runVars, modeVars>>

Next ==
    \/ InitCheckers
    \/ \E k \in Checkers : InitCheckersRaise(k)
    \/ Submit
    \/ trapac_wait
    \/ \E s \in Checkers : check_terminal(s)
    \/ as_completed
    \/ \E s \in Checkers : JoinResult(s)
    \/ \E s \in Checkers : JoinRaised(s)
    \/ ParallelMerge
    \/ JoinEnd
    \/ SeqQuery
    \/ SeqMerge
    \/ SeqFinish
    \/ SeqBreak
    \/ SeqEnd

Spec == Init /\ [][Next]_vars

-----------------------------------------------------------------------------
(* TrapacChecker.check_containers, step by step *)

batch_size == 10
max_wait == 300

Min(a, b) == IF a < b THEN a ELSE b

(* range(0, n, batch_size) *)
BatchStarts(n) == { i \in 0..(n - 1) : i % batch_size = 0 }

(* the slice one element short: container_numbers[i:i + batch_size - 1] *)
Batch_Short(numbers, i) == SubSeq(numbers, i + 1, Min(i + batch_size - 1, Len(numbers)))

(* container_numbers[i:i + batch_size] *)
Batch(numbers, i) == SubSeq(numbers, i + 1, Min(i + batch_size, Len(numbers)))

(* the loop condition with <= for < *)
WaitContinues_Inclusive(t, t0) == t - t0 <= max_wait

(* while time.time() - start_time < max_wait *)
WaitContinues(t, t0) == t - t0 < max_wait

(* if time.time() - start_time >= max_wait: raise TimeoutException *)
TimedOut(t, t0) == t - t0 >= max_wait

(* The rows of a result table for `batch`: the first n containers are       *)
(* row-odd rows; the others are error rows (rest = TRUE) or are not shown.   *)
TableRows(batch, n, rest) ==
    [k \in 1..(IF rest THEN Len(batch) ELSE n) |->
        ContainerStatus(batch[k], IF k <= n THEN terminal_name(1) ELSE NOT_FOUND, 1)]

(* for container in batch: results.append(ContainerStatus(container, "NOT FOUND")) *)
NoResults(batch) == [k \in 1..Len(batch) |-> ContainerStatus(batch[k], NOT_FOUND, 1)]

MainIdle ==
    /\ parallel = FALSE /\ container_numbers = <<>> /\ pc = "off"
    /\ driver = [s \in Checkers |-> "none"] /\ container_results = <<>>
    /\ remaining_containers = <<>> /\ new_remaining = <<>> /\ idx = 0 /\ ri = 0
    /\ fstate = [s \in Checkers |-> "pending"] /\ completed = <<>>
    /\ finished = <<>> /\ early = {}
    /\ order = <<>> /\ asked = {} /\ queried = [s \in Checkers |-> <<>>]
    /\ ret = [s \in Checkers |-> <<>>]

InitTrapac ==
    /\ MainIdle
    /\ TideworksIdle
    /\ RunIdle
    /\ ModesIdle
    /\ \E n \in 0..MaxN : t_numbers = [k \in 1..n |-> k]
    /\ t_pc = "loop"
    /\ t_i = 0
    /\ t_results = <<>>
    /\ t_submitted = <<>>
    /\ t_timeouts = {}
    /\ start_time = 0
    /\ now = 0
    /\ cleared = FALSE
    /\ t_raised = FALSE

(* loop head; driver.get; the containers textarea; send_keys(batch) *)
T_Enter ==
    /\ t_pc = "loop"
    /\ t_i \in BatchStarts(Len(t_numbers))
    /\ \/ /\ t_submitted' = Append(t_submitted, Batch(t_numbers, t_i))
          /\ t_pc' = "click"
          /\ t_raised' = t_raised
       \/ \* the page does not load or the input field is not found
          /\ t_raised' = TRUE
          /\ t_pc' = "fill"
          /\ t_submitted' = t_submitted
    /\ UNCHANGED <<mainVars, tideVars, runVars, modeVars, t_numbers, t_i, t_results, t_timeouts, start_time,
                   now, cleared>>

(* the Check button; the search for a visible reCAPTCHA element *)
T_Click ==
    /\ t_pc = "click"
    /\ \/ \* no reCAPTCHA
          /\ t_pc' = "table"
          /\ UNCHANGED <<start_time, now, t_raised>>
       \/ \* recaptcha_present: start_time = time.time()
          /\ \E t0 \in ClockAtStart : now' = t0 /\ start_time' = t0
          /\ t_pc' = "wait"
          /\ t_raised' = t_raised
       \/ \* the button is not found, or find_elements raises
          /\ t_raised' = TRUE
          /\ t_pc' = "fill"
          /\ UNCHANGED <<start_time, now>>
    /\ UNCHANGED <<mainVars, tideVars, runVars, modeVars, t_numbers, t_i, t_results, t_submitted, t_timeouts,
                   cleared>>

(* one iteration of the wait loop: wait_for_element(table, timeout=1), then *)
(* break, or time.sleep(1)                                                   *)
T_Poll ==
    /\ t_pc = "wait"
    /\ WaitContinues(now, start_time)
    /\ \/ \E d \in 0..1 :
             /\ now' = now + d
             /\ cleared' = TRUE
             /\ t_pc' = "after_wait"
       \/ \E d \in 1..MaxPollSeconds :
             /\ now' = now + d + 1
             /\ cleared' = cleared
             /\ t_pc' = "wait"
    /\ UNCHANGED <<mainVars, tideVars, runVars, modeVars, t_numbers, t_i, t_results, t_submitted, t_timeouts,
                   start_time, t_raised>>

(* the loop condition is false *)
T_WaitExit ==
    /\ t_pc = "wait"
    /\ ~WaitContinues(now, start_time)
    /\ t_pc' = "after_wait"
    /\ UNCHANGED <<mainVars, tideVars, runVars, modeVars, t_numbers, t_i, t_results, t_submitted, t_timeouts,
                   start_time, now, cleared, t_raised>>

(* the check after the loop.  The clock is read nowhere else, so it is not  *)
(* tracked outside the wait.                                                 *)
T_AfterWait ==
    /\ t_pc = "after_wait"
    /\ IF TimedOut(now, start_time)
       THEN /\ t_timeouts' = t_timeouts \cup {t_i}
            /\ t_raised' = TRUE
            /\ t_pc' = "fill"
       ELSE /\ t_pc' = "table"
            /\ UNCHANGED <<t_timeouts, t_raised>>
    /\ now' = 0 /\ start_time' = 0 /\ cleared' = FALSE
    /\ UNCHANGED <<mainVars, tideVars, runVars, modeVars, t_numbers, t_i, t_results, t_submitted>>

(* the results table of the batch *)
T_Table ==
    /\ t_pc = "table"
    /\ LET batch == Batch(t_numbers, t_i)
       IN  \/ \E n \in {0, 1, Len(batch)}, rest \in BOOLEAN :
                 /\ t_results' = t_results \o TableRows(batch, n, rest)
                 /\ t_i' = t_i + batch_size
                 /\ t_pc' = "loop"
                 /\ t_raised' = t_raised
           \/ \* no table, "No result found": continue
              /\ t_results' = t_results \o NoResults(batch)
              /\ t_i' = t_i + batch_size
              /\ t_pc' = "loop"
              /\ t_raised' = t_raised
           \/ \* raise Exception("Results table not found")
              /\ t_raised' = TRUE
              /\ t_pc' = "fill"
              /\ UNCHANGED <<t_results, t_i>>
    /\ UNCHANGED <<mainVars, tideVars, runVars, modeVars, t_numbers, t_submitted, t_timeouts, start_time, now,
                   cleared>>

(* range(..) is exhausted *)
T_LoopEnd ==
    /\ t_pc = "loop"
    /\ t_i \notin BatchStarts(Len(t_numbers))
    /\ t_pc' = "fill"
    /\ UNCHANGED <<mainVars, tideVars, runVars, modeVars, t_numbers, t_i, t_results, t_submitted, t_timeouts,
                   start_time, now, cleared, t_raised>>

(* a return that drops what was collected when an exception was caught *)
T_Return_Discard ==
    /\ t_pc = "fill"
    /\ t_results' = IF t_raised THEN NoResults(t_numbers)
                    ELSE AddMissing(t_numbers, t_results, 1)
    /\ t_pc' = "returned"
    /\ UNCHANGED <<mainVars, tideVars, runVars, modeVars, t_numbers, t_i, t_submitted, t_timeouts, start_time,
                   now, cleared, t_raised>>

(* "Add any containers that weren't found"; return results *)
T_Return ==
    /\ t_pc = "fill"
    /\ t_results' = AddMissing(t_numbers, t_results, 1)
    /\ t_pc' = "returned"
    /\ UNCHANGED <<mainVars, tideVars, runVars, modeVars, t_numbers, t_i, t_submitted, t_timeouts, start_time,
                   now, cleared, t_raised>>

NextTrapac ==
    \/ T_Enter
    \/ T_Click
    \/ T_Poll
    \/ T_WaitExit
    \/ T_AfterWait
    \/ T_Table
    \/ T_LoopEnd
    \/ T_Return

SpecTrapac == InitTrapac /\ [][NextTrapac]_vars

-----------------------------------------------------------------------------
(* TideworksChecker.check_containers, step by step *)

(* [ContainerStatus(container, terminal="LOGIN FAILED") for container in ..] *)
LoginFailedList(s, numbers) ==
    [k \in 1..Len(numbers) |-> ContainerStatus(numbers[k], LOGIN_FAILED, s)]

(* The rows parsed from the result table: at most MaxRows found and         *)
(* not-found rows for identifiers that were searched.                        *)
TideworksRows(s, numbers) ==
    LET recs == { ContainerStatus(c, t, s) :
                    c \in Range(numbers), t \in {terminal_name(s), NOT_FOUND} }
    IN  UNION { [1..n -> recs] : n \in 0..MaxRows }

InitTideworks ==
    /\ MainIdle
    /\ TrapacIdle
    /\ RunIdle
    /\ ModesIdle
    /\ w_s \in {2, 3}
    /\ \E n \in 0..MaxW : w_numbers \in [1..n -> 1..MaxW]
    /\ w_pc = "login"
    /\ w_login = "none"
    /\ w_entered = <<>>
    /\ w_results = <<>>
    /\ w_trace = <<>>

(* a failed login that the caller does not look at *)
W_Login_Ignored ==
    /\ w_pc = "login"
    /\ w_trace' = Append(w_trace, "login")
    /\ \E outcome \in {"no_form", "no_error_shown", "rejected", "error"} :
          /\ w_login' = outcome
          /\ w_pc' = "menu"
          /\ w_results' = w_results
    /\ UNCHANGED <<mainVars, trapacVars, runVars, modeVars, w_s, w_numbers, w_entered>>

(* if not self.login(): return [LOGIN FAILED ...].  login() returns True    *)
(* when there is no login form or no error message appears within the wait,  *)
(* False when the error message is found or anything raises.                 *)
W_Login ==
    /\ w_pc = "login"
    /\ w_trace' = Append(w_trace, "login")
    /\ \E outcome \in {"no_form", "no_error_shown", "rejected", "error"} :
          /\ w_login' = outcome
          /\ IF outcome \in {"rejected", "error"}
             THEN /\ w_results' = LoginFailedList(w_s, w_numbers)
                  /\ w_pc' = "returned"
             ELSE /\ w_results' = w_results
                  /\ w_pc' = "menu"
    /\ UNCHANGED <<mainVars, trapacVars, runVars, modeVars, w_s, w_numbers, w_entered>>

(* the pop-up, the Import menu button, the numbers field *)
W_Menu ==
    /\ w_pc = "menu"
    /\ \/ w_pc' = "enter"
       \/ \* an element is not found in time: raise, caught by the outer except
          w_pc' = "fill"
    /\ UNCHANGED <<mainVars, trapacVars, runVars, modeVars, w_s, w_numbers, w_login, w_entered,
                   w_results, w_trace>>

(* container_input.send_keys("\n".join(container_numbers)) *)
W_Enter ==
    /\ w_pc = "enter"
    /\ w_entered' = Append(w_entered, w_numbers)
    /\ w_trace' = Append(w_trace, "query")
    /\ w_pc' = "search"
    /\ UNCHANGED <<mainVars, trapacVars, runVars, modeVars, w_s, w_numbers, w_login, w_results>>

(* the search button, the result table and its rows *)
W_Search ==
    /\ w_pc = "search"
    /\ \/ \E rows \in TideworksRows(w_s, w_numbers) : w_results' = rows
       \/ \* the button or the table is not found: raise
          w_results' = w_results
    /\ w_pc' = "fill"
    /\ UNCHANGED <<mainVars, trapacVars, runVars, modeVars, w_s, w_numbers, w_login, w_entered,
                   w_trace>>

(* "Add any containers that weren't found in the results"; return results *)
W_Return ==
    /\ w_pc = "fill"
    /\ w_results' = AddMissing(w_numbers, w_results, w_s)
    /\ w_pc' = "returned"
    /\ UNCHANGED <<mainVars, trapacVars, runVars, modeVars, w_s, w_numbers, w_login, w_entered,
                   w_trace>>

NextTideworks ==
    \/ W_Login
    \/ W_Menu
    \/ W_Enter
    \/ W_Search
    \/ W_Return

SpecTideworks == InitTideworks /\ [][NextTideworks]_vars

-----------------------------------------------------------------------------
(* run.py: main.  The options -i and -o are given or not; -c and -d hold    *)
(* the number of values given, 0 when the option is absent (None).           *)

Args ==
    [query : BOOLEAN, inbound : BOOLEAN, outbound : BOOLEAN,
     containers : 0..MaxContainers, date : 0..MaxContainers]

otherVars == <<mainVars, trapacVars, tideVars, modeVars>>

InitRun ==
    /\ MainIdle
    /\ TrapacIdle
    /\ TideworksIdle
    /\ ModesIdle
    /\ r_args \in Args
    /\ r_pc = "construct"
    /\ r_i = 0
    /\ r_actions = <<>>
    /\ r_errors = {}

(* wms = WMS(): setup_driver starts the browser; outside the try block *)
R_Construct ==
    /\ r_pc = "construct"
    /\ r_pc' \in {"login", "aborted"}
    /\ UNCHANGED <<otherVars, r_args, r_i, r_actions, r_errors>>

(* wms.login(); its return value is not looked at *)
R_Login ==
    /\ r_pc = "login"
    /\ r_actions' = Append(r_actions, "login")
    /\ r_pc' = "query"
    /\ UNCHANGED <<otherVars, r_args, r_i, r_errors>>

(* if args.query: query_inventory(), then upload_to_gdrive().  A failed     *)
(* query formats the unbound name e: NameError.  upload_to_gdrive builds the *)
(* credentials outside its try block and can raise.                          *)
R_Query ==
    /\ r_pc = "query"
    /\ IF r_args.query
       THEN \/ /\ r_actions' = r_actions \o <<"query_inventory", "upload_to_gdrive">>
               /\ r_pc' \in {"inbound", "except"}
            \/ /\ r_actions' = Append(r_actions, "query_inventory")
               /\ r_pc' = "except"
       ELSE r_actions' = r_actions /\ r_pc' = "inbound"
    /\ UNCHANGED <<otherVars, r_args, r_i, r_errors>>

(* if args.inbound is not None: the containers test, the error message *)
R_Inbound ==
    /\ r_pc = "inbound"
    /\ IF ~r_args.inbound THEN r_pc' = "outbound" /\ UNCHANGED <<r_i, r_errors>>
       ELSE IF r_args.containers > 0
            THEN r_pc' = "inbound_loop" /\ r_i' = 0 /\ r_errors' = r_errors
            ELSE /\ r_errors' = r_errors \cup {"-i"}
                 /\ r_pc' = "outbound"
                 /\ r_i' = r_i
    /\ UNCHANGED <<otherVars, r_args, r_actions>>

(* for container in args.containers: wms.create_inbound(...) *)
R_CreateInbound ==
    /\ r_pc = "inbound_loop"
    /\ IF r_i < r_args.containers
       THEN /\ r_actions' = Append(r_actions, "create_inbound")
            /\ r_i' = r_i + 1
            /\ r_pc' = r_pc
       ELSE r_pc' = "outbound" /\ UNCHANGED <<r_i, r_actions>>
    /\ UNCHANGED <<otherVars, r_args, r_errors>>

(* if args.outbound is not None: the containers test, the error message *)
R_Outbound ==
    /\ r_pc = "outbound"
    /\ IF ~r_args.outbound THEN r_pc' = "quit" /\ UNCHANGED <<r_i, r_errors>>
       ELSE IF r_args.containers > 0
            THEN r_pc' = "outbound_loop" /\ r_i' = 0 /\ r_errors' = r_errors
            ELSE /\ r_errors' = r_errors \cup {"-o"}
                 /\ r_pc' = "quit"
                 /\ r_i' = r_i
    /\ UNCHANGED <<otherVars, r_args, r_actions>>

(* wms.create_outbound(args.containers[i], args.product, args.date[i],      *)
(* args.outbound): args.date[i] raises when -d is absent or has no i-th      *)
(* value; otherwise the call raises TypeError, create_outbound taking three  *)
(* arguments.  Either way the exception reaches the except clause.           *)
R_CreateOutbound ==
    /\ r_pc = "outbound_loop"
    /\ r_i < r_args.containers
    /\ r_pc' = "except"
    /\ UNCHANGED <<otherVars, r_args, r_i, r_actions, r_errors>>

(* except Exception as e: print("Error:", e) *)
R_Except ==
    /\ r_pc = "except"
    /\ r_pc' = "quit"
    /\ UNCHANGED <<otherVars, r_args, r_i, r_actions, r_errors>>

(* wms.driver.quit() *)
R_Quit ==
    /\ r_pc = "quit"
    /\ r_pc' \in {"done", "aborted"}
    /\ UNCHANGED <<otherVars, r_args, r_i, r_actions, r_errors>>

NextRun ==
    \/ R_Construct
    \/ R_Login
    \/ R_Query
    \/ R_Inbound
    \/ R_CreateInbound
    \/ R_Outbound
    \/ R_CreateOutbound
    \/ R_Except
    \/ R_Quit

SpecRun == InitRun /\ [][NextRun]_vars

(* one call of check_containers of either checker *)
InitCheckerCall == InitTrapac \/ InitTideworks

NextCheckerCall == NextTrapac \/ NextTideworks

SpecCheckerCall == InitCheckerCall /\ [][NextCheckerCall]_vars

-----------------------------------------------------------------------------
(* Vocabulary of the properties of main *)

Ids == Range(container_numbers)

AtOutput == pc = "output"

Substantive(r) == r.terminal \notin {NOT_FOUND, LOGIN_FAILED}

HasNotFound(s, X) ==
    \E k \in DOMAIN ret[s] :
        ret[s][k].container_number = X /\ ret[s][k].terminal = NOT_FOUND

HasSubstantive(s, X) ==
    \E k \in DOMAIN ret[s] :
        ret[s][k].container_number = X /\ Substantive(ret[s][k])

Position(s) == CHOOSE k \in DOMAIN order : order[k] = s

MergedBefore(a, b) ==
    /\ a \in Range(order) /\ b \in Range(order)
    /\ Position(a) < Position(b)

(* every record handed to the merge loop so far, in merge order *)
RECURSIVE MergeLog(_)
MergeLog(k) == IF k = 0 THEN <<>> ELSE MergeLog(k - 1) \o ret[order[k]]

NonNotFoundAt(log, X) ==
    { k \in DOMAIN log : log[k].container_number = X /\ log[k].terminal # NOT_FOUND }

LastOf(S) == CHOOSE k \in S : \A j \in S : j <= k

LoginFailed(s) ==
    /\ s \in asked /\ ret[s] # <<>>
    /\ \A k \in DOMAIN ret[s] : ret[s][k].terminal = LOGIN_FAILED

-----------------------------------------------------------------------------
(* C1 - Totality: when the run reaches the output step, container_results   *)
(* has an entry for every normalized input identifier.                       *)
C1_Totality ==
    AtOutput => \A X \in Ids : X \in DOMAIN container_results

(* C2 - Provisional suppression, as stated: if A's results hold a not-found *)
(* record for X and B's results, merged after A's, hold a substantive        *)
(* record for X, the final record for X is B's record.                       *)
C2_Case(A, B, X) ==
    /\ MergedBefore(A, B)
    /\ HasNotFound(A, X)
    /\ HasSubstantive(B, X)

C2_FinalIsBs ==
    AtOutput =>
        \A A \in Checkers, B \in Checkers, X \in Ids :
            C2_Case(A, B, X) =>
                /\ X \in DOMAIN container_results
                /\ container_results[X][1].origin = B
                /\ Substantive(container_results[X][1])

(* C2 - as amended: in that case the final record for X is never a          *)
(* not-found record; it is the last merged record for X whose terminal is   *)
(* not NOT FOUND, which is B's record unless a checker merged after B also   *)
(* returned such a record for X.                                             *)
C2_FinalIsLastNonNotFound ==
    AtOutput =>
        \A A \in Checkers, B \in Checkers, X \in Ids :
            C2_Case(A, B, X) =>
                LET log == MergeLog(Len(order))
                    last == log[LastOf(NonNotFoundAt(log, X))]
                IN  /\ X \in DOMAIN container_results
                    /\ container_results[X] = <<last>>
                    /\ container_results[X][1].terminal # NOT_FOUND
                    /\ \/ container_results[X][1].origin = B
                       \/ MergedBefore(B, container_results[X][1].origin)

C2_Witness ==
    /\ AtOutput
    /\ \E A \in Checkers, B \in Checkers, X \in Ids :
          /\ C2_Case(A, B, X)
          /\ container_results[X][1].origin = B
          /\ \E C \in Checkers : MergedBefore(B, C) /\ HasNotFound(C, X)

(* C3 - No overwrite by not-found: an entry that is not a not-found record  *)
(* is never replaced by a not-found record, and a not-found record is stored *)
(* only under a key the mapping does not have yet.                           *)
C3_NoOverwriteByNotFound ==
    [][\A X \in DOMAIN container_results :
          /\ X \in DOMAIN container_results'
          /\ container_results[X][1].terminal # NOT_FOUND
                => container_results'[X][1].terminal # NOT_FOUND
          /\ container_results'[X][1].terminal = NOT_FOUND
                => container_results'[X] = container_results[X]]_vars

(* a not-found record for X has been through the merge loop while the       *)
(* mapping held another checker's record for X that is not a not-found one  *)
C3_Witness ==
    /\ pc \in {"merge", "seq_merge", "join", "seq", "output"}
    /\ idx \in Checkers
    /\ \E k \in DOMAIN ret[idx] :
          /\ k < ri
          /\ ret[idx][k].terminal = NOT_FOUND
          /\ ret[idx][k].container_number \in DOMAIN container_results
          /\ LET cur == container_results[ret[idx][k].container_number][1]
             IN  cur.terminal # NOT_FOUND /\ cur.origin # idx

(* C4 - Sequential short-circuit: in sequential mode an identifier for      *)
(* which an earlier checker returned a substantive record is not in the      *)
(* list passed to any later checker.                                         *)
C4_ShortCircuit ==
    ~parallel =>
        \A s1 \in asked, s2 \in asked, X \in Ids :
            (s1 < s2 /\ HasSubstantive(s1, X)) => X \notin Range(queried[s2])

(* C5 - Authentication failure isolation: a checker whose login is rejected *)
(* returns one LOGIN FAILED record per requested identifier, and the other   *)
(* checkers still run: sequentially, every later checker is queried with     *)
(* the identifiers no checker has resolved with real data; in parallel,      *)
(* every other task runs to completion.                                      *)
C5_LoginFailureIsolation ==
    AtOutput =>
        \A s \in Checkers :
            LoginFailed(s) =>
                /\ ret[s] = [k \in 1..Len(queried[s]) |->
                                ContainerStatus(queried[s][k], LOGIN_FAILED, s)]
                /\ parallel => \A s2 \in Checkers : fstate[s2] \in {"ok", "raised"}
                /\ ~parallel =>
                      \A s2 \in Checkers, X \in Ids :
                          (s < s2 /\ ~\E s1 \in asked : s1 < s2 /\ HasSubstantive(s1, X))
                              => (s2 \in asked /\ X \in Range(queried[s2]))

(* C7 - No single-source error aborts the run: whichever checker fails, and *)
(* wherever in its lifetime, main is not left by an exception.               *)
C7_NeverAborted == pc # "aborted"

(* C8 - Session release on every exit path: when the run reaches the output *)
(* step, driver.quit has been called on every session that was created.     *)
C8_AllReleased ==
    AtOutput => \A s \in Checkers : driver[s] # "open"

-----------------------------------------------------------------------------
(* Vocabulary of the properties of TrapacChecker.check_containers *)

Returned == t_pc = "returned"

Elapsed == now - start_time

Kth(S, k) == CHOOSE x \in S : Cardinality({ y \in S : y < x }) = k - 1

(* the batches the loop cuts from `numbers`, in loop order *)
Plan(numbers) ==
    LET starts == BatchStarts(Len(numbers))
    IN  [k \in 1..Cardinality(starts) |-> Batch(numbers, Kth(starts, k))]

RECURSIVE Concat(_)
Concat(ss) == IF ss = <<>> THEN <<>> ELSE Head(ss) \o Concat(Tail(ss))

IsPrefix(a, b) == Len(a) <= Len(b) /\ a = SubSeq(b, 1, Len(a))

(* C6 - Challenge timeout is scoped to one batch: when the wait of batch i  *)
(* times out, the identifiers of that batch are returned as NOT FOUND and    *)
(* every later batch is still submitted.                                     *)
C6_LaterBatchesSubmitted ==
    Returned =>
        \A i \in t_timeouts :
            /\ \A k \in DOMAIN Batch(t_numbers, i) :
                  ContainerStatus(Batch(t_numbers, i)[k], NOT_FOUND, 1) \in Range(t_results)
            /\ \A j \in BatchStarts(Len(t_numbers)) :
                  j > i => Batch(t_numbers, j) \in Range(t_submitted)

(* C9 - Timeout terminal behaviour: a wait in which no poll finds the table *)
(* is polled only while the elapsed time is below max_wait, leaves the loop  *)
(* only once the elapsed time has reached max_wait (and within one           *)
(* iteration of it), and then ends with TimeoutException; the exception is   *)
(* raised at no other moment.                                                *)
C9_TimeoutAtCeiling ==
    [][/\ (t_pc = "wait" /\ (now' # now \/ cleared')) => Elapsed < max_wait
       /\ (t_pc = "wait" /\ t_pc' = "after_wait" /\ ~cleared') =>
              /\ now' - start_time' >= max_wait
              /\ now' - start_time' <= max_wait + MaxPollSeconds
       /\ (t_pc = "after_wait" /\ ~cleared) => (t_pc' = "fill" /\ t_i \in t_timeouts')
       /\ t_timeouts' # t_timeouts => (t_pc = "after_wait" /\ Elapsed >= max_wait)
      ]_vars

C9_Witness ==
    /\ t_pc = "fill"
    /\ t_timeouts # {}
    /\ Len(t_submitted) = 2

(* C10 - Batch partition correctness: the loop cuts a list of N identifiers *)
(* into ceil(N / batch_size) batches, none empty, each of batch_size        *)
(* identifiers except possibly the last, which concatenated in order give    *)
(* the list; no batch when N = 0.  The batches are submitted in that order,  *)
(* and all of them when no exception ends the loop.                          *)
C10_BatchPartition ==
    LET N == Len(t_numbers)
        plan == Plan(t_numbers)
    IN  /\ Len(plan) = (N + batch_size - 1) \div batch_size
        /\ N = 0 => plan = <<>>
        /\ \A k \in DOMAIN plan :
              /\ Len(plan[k]) >= 1
              /\ Len(plan[k]) <= batch_size
              /\ k < Len(plan) => Len(plan[k]) = batch_size
        /\ Concat(plan) = t_numbers
        /\ IsPrefix(t_submitted, plan)
        /\ (Returned /\ ~t_raised) => t_submitted = plan

C10_Witness ==
    /\ Returned
    /\ ~t_raised
    /\ Len(t_submitted) = 3
    /\ Len(t_submitted[3]) < batch_size

-----------------------------------------------------------------------------
(* Properties of main, continued *)

NoDuplicates(list) ==
    \A i \in DOMAIN list, j \in DOMAIN list : i # j => list[i] # list[j]

(* C11 - Identifier uniqueness at ingestion: after normalization the work   *)
(* list holds no identifier twice, and so does every list passed to a        *)
(* checker.                                                                  *)
C11_UniqueIdentifiers ==
    /\ pc # "start" => NoDuplicates(container_numbers)
    /\ \A s \in asked : NoDuplicates(queried[s])

(* C12 - Single final record: every key of container_results maps to a list *)
(* of exactly one record, and that record's container_number is the key.     *)
C12_SingleFinalRecord ==
    \A X \in DOMAIN container_results :
        /\ Len(container_results[X]) = 1
        /\ container_results[X][1].container_number = X

(* two checkers' records for the same identifier went through the merge,    *)
(* the second replacing the first                                            *)
C12_Witness ==
    /\ AtOutput
    /\ \E X \in DOMAIN container_results, a \in Checkers, b \in Checkers :
          /\ MergedBefore(a, b)
          /\ \E k \in DOMAIN ret[a] :
                ret[a][k].container_number = X /\ ret[a][k].terminal # NOT_FOUND
          /\ \E k \in DOMAIN ret[b] :
                ret[b][k].container_number = X /\ ret[b][k].terminal # NOT_FOUND
          /\ container_results[X][1].origin = b

-----------------------------------------------------------------------------
(* folds of the two merge loops over a list of records *)
RECURSIVE ParallelMergeAll(_, _)
ParallelMergeAll(results, log) ==
    IF log = <<>> THEN results
    ELSE ParallelMergeAll(ParallelStore(results, Head(log)), Tail(log))

RECURSIVE SequentialMergeAll(_, _)
SequentialMergeAll(results, log) ==
    IF log = <<>> THEN results
    ELSE SequentialMergeAll(SequentialStore(results, Head(log)), Tail(log))

Done(s) == fstate[s] \in {"ok", "raised"}

(* C14 - Parallel join: in parallel mode the output step is reached only     *)
(* when every task has finished (returned or raised), every task that        *)
(* returned has been yielded to the merge, and the mapping is the merge of   *)
(* all the returned lists; a raised task removes nothing from it.            *)
C14_ParallelJoin ==
    (parallel /\ AtOutput) =>
        /\ \A s \in Checkers : Done(s)
        /\ \A s \in Checkers : fstate[s] = "ok" => s \in Range(order)
        /\ container_results = ParallelMergeAll(<<>>, MergeLog(Len(order)))
        /\ \A s \in Checkers : \A k \in DOMAIN ret[s] :
               ret[s][k].container_number \in DOMAIN container_results

(* the output step with one task raised and a sibling's record in the mapping *)
C14_Witness ==
    /\ parallel /\ AtOutput
    /\ \E a \in Checkers, b \in Checkers :
          /\ fstate[a] = "raised" /\ fstate[b] = "ok"
          /\ MergedBefore(a, b)
          /\ \E X \in DOMAIN container_results : container_results[X][1].origin = b

(* the tasks that returned a substantive record for X *)
SubstantiveFor(X) == { s \in Checkers : HasSubstantive(s, X) }

CompletedAt(s) == CHOOSE k \in DOMAIN completed : completed[k] = s

(* C15 - Parallel tie-break: in parallel mode, in a run where the tasks'    *)
(* results were merged in the order the tasks completed, when two or more    *)
(* tasks returned a substantive record for X the final record for X is the   *)
(* one of the task that completed last among them.                           *)
C15_ParallelTieBreak ==
    (parallel /\ AtOutput /\ order = completed) =>
        \A X \in Ids :
          Cardinality(SubstantiveFor(X)) >= 2 =>
              \E w \in SubstantiveFor(X) :
                  /\ \A s \in SubstantiveFor(X) : CompletedAt(s) <= CompletedAt(w)
                  /\ X \in DOMAIN container_results
                  /\ container_results[X][1].origin = w
                  /\ Substantive(container_results[X][1])

(* C16 - Sequential early termination: in sequential mode a checker is      *)
(* queried only in the order Trapac, Shippers Transport, Oakland             *)
(* International, only with the current remaining list, only when that list  *)
(* is not empty, and only when every record of the checkers queried before   *)
(* has been merged.                                                          *)
C16_SequentialOrder ==
    [][~parallel =>
         /\ remaining_containers = <<>> => asked' = asked
         /\ asked' # asked =>
               \E s \in Checkers :
                   /\ asked = 1..(s - 1)
                   /\ asked' = 1..s
                   /\ terminal_name(s) =
                         <<"Trapac", "Shippers Transport", "Oakland International">>[s]
                   /\ queried'[s] = remaining_containers
                   /\ order' = Append(order, s)
                   /\ container_results =
                         SequentialMergeAll(<<>>, MergeLog(Len(order)))]_vars

(* the loop stopped after Trapac although two checkers were left *)
C16_Witness ==
    /\ ~parallel /\ AtOutput
    /\ asked = {1}
    /\ queried[1] # <<>>
    /\ remaining_containers = <<>>

(* list minus every occurrence of the identifiers in S, order kept *)
RECURSIVE Without(_, _)
Without(list, S) ==
    IF list = <<>> THEN <<>>
    ELSE IF Head(list) \in S THEN Without(Tail(list), S)
    ELSE <<Head(list)>> \o Without(Tail(list), S)

Resolved(s) ==
    { ret[s][k].container_number :
        k \in { j \in DOMAIN ret[s] : ret[s][j].terminal # NOT_FOUND } }

(* C17 - Sequential remaining-list update: once a checker's results are      *)
(* merged, the remaining list is the list that checker was queried with      *)
(* minus every occurrence of each identifier for which it returned a record  *)
(* whose terminal is not NOT FOUND, the others in their order.               *)
C17_RemainingUpdate ==
    (~parallel /\ pc \in {"seq", "output"} /\ order # <<>>) =>
        LET s == order[Len(order)]
        IN  remaining_containers = Without(queried[s], Resolved(s))

(* C19 - Serialized merge: in parallel mode the mapping changes only by one *)
(* step of the joining flow's merge loop, on the records of the task yielded *)
(* last, and a merge of one task's records is not interleaved with another's;*)
(* a step of a task changes neither the mapping nor another task's session   *)
(* or result.                                                                *)
C19_SerializedMerge ==
    [][parallel =>
         /\ container_results' # container_results =>
               /\ pc = "merge"
               /\ idx = order[Len(order)]
               /\ container_results' = ParallelStore(container_results, ret[idx][ri])
               /\ fstate' = fstate /\ driver' = driver /\ ret' = ret
         /\ (pc = "merge" /\ pc' = "merge") => (idx' = idx /\ order' = order)
         /\ \A s \in Checkers :
               (fstate[s] \in {"running", "waiting"} /\ fstate'[s] # fstate[s]) =>
                   /\ container_results' = container_results
                   /\ \A t \in Checkers \ {s} :
                          driver'[t] = driver[t] /\ ret'[t] = ret[t]]_vars

(* the joining flow is in the middle of one task's records while another    *)
(* task has already finished and a third is still running                    *)
C19_Witness ==
    /\ parallel /\ pc = "merge" /\ ri > 1
    /\ \E s \in Checkers, t \in Checkers :
          /\ s # idx /\ fstate[s] = "ok" /\ s \notin Range(order)
          /\ fstate[t] \in {"running", "waiting"}

(* C20 - Challenge wait isolation: in parallel mode, while the Trapac task  *)
(* is blocked in the reCAPTCHA wait, every other task that has not finished  *)
(* can take its step, and the joining flow can yield any finished task and   *)
(* merge its records.                                                        *)
C20_WaitIsolation ==
    (parallel /\ fstate[1] = "waiting") =>
        /\ \A s \in Checkers \ {1} :
               fstate[s] = "running" => ENABLED check_terminal(s)
        /\ (pc = "join" /\ (early # {} \/ finished # <<>>)) =>
               \E s \in Checkers \ {1} : ENABLED (JoinResult(s) \/ JoinRaised(s))
        /\ pc = "merge" => (idx # 1 /\ ENABLED ParallelMerge)

(* both other tasks finished and were merged while Trapac is still waiting *)
C20_Witness ==
    /\ parallel /\ fstate[1] = "waiting" /\ pc = "join"
    /\ order = <<2, 3>> \/ order = <<3, 2>>
    /\ \E X \in DOMAIN container_results : container_results[X][1].origin \in {2, 3}

-----------------------------------------------------------------------------
LoginReturnedFalse == w_login \in {"rejected", "error"}

(* C13 - Login protocol: in TideworksChecker.check_containers every entry   *)
(* of identifiers into the search form comes after the call of login; when   *)
(* login returned False no identifier is ever entered, and the list returned *)
(* is one LOGIN FAILED record per requested identifier, in order.            *)
C13_LoginProtocol ==
    /\ \A k \in DOMAIN w_trace :
          w_trace[k] = "query" => \E j \in 1..(k - 1) : w_trace[j] = "login"
    /\ LoginReturnedFalse =>
          /\ w_entered = <<>>
          /\ "query" \notin Range(w_trace)
          /\ w_pc = "returned"
          /\ Len(w_results) = Len(w_numbers)
          /\ \A k \in DOMAIN w_numbers :
                w_results[k] = ContainerStatus(w_numbers[k], LOGIN_FAILED, w_s)

(* check_containers returned after a rejected login for two identifiers *)
C13_Witness ==
    /\ w_pc = "returned"
    /\ w_login = "rejected"
    /\ Len(w_numbers) = 2
    /\ w_results[2].terminal = LOGIN_FAILED

-----------------------------------------------------------------------------
(* C21 - Release failures are not fatal: main is left by an exception only  *)
(* when a checker could not be constructed, never because driver.quit        *)
(* raised; and a checker that was queried with a non-empty list has          *)
(* delivered its list to the merge even when its driver.quit raised.         *)
C21_ReleaseFailureNotFatal ==
    /\ pc = "aborted" => \E s \in Checkers : driver[s] = "none"
    /\ \A s \in asked : queried[s] # <<>> => ret[s] # <<>>

(* every record merged so far, at the points where no merge loop is running *)
Settled == pc \in {"join", "seq", "output"}

(* C24 - Sentinels never displace real data: for an input without          *)
(* duplicates, where the mapping holds a LOGIN FAILED record for X, no       *)
(* record with real source data for X has been merged; and in sequential     *)
(* mode an identifier for which the checker queried last returned LOGIN      *)
(* FAILED is still in the remaining list.                                    *)
C24_SentinelsNeverDisplace ==
    (Settled /\ NoDuplicates(container_numbers)) =>
        /\ \A X \in DOMAIN container_results :
              container_results[X][1].terminal = LOGIN_FAILED =>
                  ~\E k \in DOMAIN MergeLog(Len(order)) :
                      /\ MergeLog(Len(order))[k].container_number = X
                      /\ Substantive(MergeLog(Len(order))[k])
        /\ (~parallel /\ order # <<>>) =>
              \A X \in Range(queried[order[Len(order)]]) :
                  ContainerStatus(X, LOGIN_FAILED, order[Len(order)])
                          \in Range(ret[order[Len(order)]])
                      => X \in Range(remaining_containers)

(* the checkers that returned for X a record whose terminal is not NOT FOUND *)
NonNotFoundFor(X) ==
    { s \in Checkers :
        \E k \in DOMAIN ret[s] :
            ret[s][k].container_number = X /\ ret[s][k].terminal # NOT_FOUND }

AtMostOneNonNotFound == \A X \in Ids : Cardinality(NonNotFoundFor(X)) <= 1

Returned_Ids ==
    UNION { { ret[s][k].container_number : k \in DOMAIN ret[s] } : s \in Checkers }

(* C26 - Parallel confluence: in parallel mode, when for every identifier   *)
(* at most one checker returned a record that is not NOT FOUND, the final    *)
(* mapping is determined by the returned lists alone, whatever the order in  *)
(* which the tasks completed and were merged: its keys are the identifiers   *)
(* of the returned records, the entry for X is that one record if there is   *)
(* one, and a NOT FOUND record otherwise.                                    *)
C26_ParallelConfluence ==
    (parallel /\ AtOutput /\ AtMostOneNonNotFound) =>
        /\ DOMAIN container_results = Returned_Ids
        /\ \A X \in DOMAIN container_results :
              LET r == container_results[X][1]
              IN  IF NonNotFoundFor(X) = {}
                  THEN r.container_number = X /\ r.terminal = NOT_FOUND
                  ELSE /\ r.origin \in NonNotFoundFor(X)
                       /\ r.terminal # NOT_FOUND
                       /\ r \in Range(ret[r.origin])

(* the record that wins was merged first and two NOT FOUND records for the  *)
(* same identifier followed                                                  *)
C26_Witness ==
    /\ parallel /\ AtOutput /\ AtMostOneNonNotFound
    /\ order # completed
    /\ \E X \in Ids, s \in Checkers :
          /\ NonNotFoundFor(X) = {s}
          /\ order[1] = s
          /\ \A t \in Checkers \ {s} : HasNotFound(t, X)
          /\ container_results[X][1].origin = s

(* checker s returned records only for identifiers it was queried with *)
AnswersOnlyQueried(s) ==
    \A k \in DOMAIN ret[s] : ret[s][k].container_number \in Range(queried[s])

(* C28 - Sequential first-success is final: in sequential mode, when every  *)
(* checker returned records only for identifiers it was queried with, an     *)
(* entry that is not a NOT FOUND record is the record of the first checker   *)
(* that returned such a record for the identifier.                           *)
C28_FirstSuccessIsFinal ==
    (~parallel /\ pc \in {"seq", "output"} /\ \A s \in asked : AnswersOnlyQueried(s)) =>
        \A X \in DOMAIN container_results :
            container_results[X][1].terminal # NOT_FOUND =>
                /\ container_results[X][1].origin \in NonNotFoundFor(X)
                /\ \A s \in NonNotFoundFor(X) : container_results[X][1].origin <= s

-----------------------------------------------------------------------------
Covers(numbers, results) ==
    \A k \in DOMAIN numbers :
        \E j \in DOMAIN results : results[j].container_number = numbers[k]

(* C22 - Dropped identifiers become not-found: whichever way a call of      *)
(* check_containers of either checker returns, the returned list has a       *)
(* record for every queried identifier; the step that returns after the try  *)
(* block appends a NOT FOUND record exactly for the identifiers without one. *)
C22_ReturnCovers ==
    [][/\ t_pc' = "returned" =>
            /\ Covers(t_numbers', t_results')
            /\ \A k \in DOMAIN t_numbers :
                  ~(\E j \in DOMAIN t_results : t_results[j].container_number = t_numbers[k])
                      => ContainerStatus(t_numbers[k], NOT_FOUND, 1) \in Range(t_results')
       /\ w_pc' = "returned" =>
            /\ Covers(w_numbers', w_results')
            /\ w_pc = "fill" =>
                  \A k \in DOMAIN w_numbers :
                      ~(\E j \in DOMAIN w_results : w_results[j].container_number = w_numbers[k])
                          => ContainerStatus(w_numbers[k], NOT_FOUND, w_s) \in Range(w_results')
      ]_vars

(* a Tideworks call that returned after the search raised, with two queried *)
(* identifiers and no row parsed                                             *)
C22_Witness ==
    /\ w_pc = "returned"
    /\ w_login \in {"no_form", "no_error_shown"}
    /\ w_entered # <<>>
    /\ Len(w_numbers) = 2 /\ w_numbers[1] # w_numbers[2]
    /\ \A j \in DOMAIN w_results : w_results[j].terminal = NOT_FOUND
    /\ Len(w_results) = 2

(* C25 - Clearance is never reported as timeout: when a poll of the wait    *)
(* loop has found the results table, the check after the loop does not       *)
(* raise the timeout.                                                        *)
C25_ClearanceNotTimeout ==
    (t_pc = "after_wait" /\ cleared) => ~TimedOut(now, start_time)

(* C29 - Partial batch results survive a later failure: no step of the      *)
(* Trapac query removes or changes a collected record, and the return after  *)
(* an exception keeps every collected record and adds a NOT FOUND record for *)
(* every queried identifier without one.                                     *)
C29_PartialResultsSurvive ==
    [][/\ IsPrefix(t_results, t_results')
       /\ (t_pc = "fill" /\ t_raised /\ t_pc' = "returned") =>
             /\ Covers(t_numbers, t_results')
             /\ \A k \in DOMAIN t_numbers :
                   ~(\E j \in DOMAIN t_results : t_results[j].container_number = t_numbers[k])
                       => ContainerStatus(t_numbers[k], NOT_FOUND, 1) \in Range(t_results')
      ]_vars

(* the query failed in the third batch, after a found record of the first *)
C29_Witness ==
    /\ Returned /\ t_raised
    /\ t_i = 2 * batch_size
    /\ t_results[1].terminal = terminal_name(1)
    /\ t_results[Len(t_results)].terminal = NOT_FOUND
    /\ Len(t_results) = Len(t_numbers)

-----------------------------------------------------------------------------
(* inbound or outbound without the container list, or outbound without a    *)
(* date for every container                                                  *)
ConfigurationError ==
    \/ r_args.inbound /\ r_args.containers = 0
    \/ r_args.outbound /\ r_args.containers = 0
    \/ r_args.outbound /\ r_args.date < r_args.containers

(* C23 - Configuration errors are pre-execution: when the command line of   *)
(* run.py has a configuration error, no method of the WMS (login, inventory  *)
(* query, upload, receipt creation) is ever called.                          *)
C23_ConfigErrorBeforeActions ==
    ConfigurationError => r_actions = <<>>

-----------------------------------------------------------------------------
(* main in both modes on the same input, with terminals whose answer for an *)
(* identifier is fixed: terminal s has data exactly for m_found[s], and the  *)
(* login of a Tideworks terminal is accepted or not.  No driver fails.       *)

ModeIds == {<<"A">>, <<"B">>}

(* the rows of the identifiers of `numbers` the terminal has data for *)
RECURSIVE FoundRows(_, _)
FoundRows(s, numbers) ==
    IF numbers = <<>> THEN <<>>
    ELSE (IF Head(numbers) \in m_found[s]
          THEN <<ContainerStatus(Head(numbers), terminal_name(s), s)>>
          ELSE <<>>) \o FoundRows(s, Tail(numbers))

(* checker.check_containers(numbers) *)
Answer(s, numbers) ==
    IF s = 1 THEN TrapacCheck(numbers, FoundRows(1, numbers))
    ELSE TideworksCheck(s, numbers, m_login[s], FoundRows(s, numbers))

(* new_remaining after the loop over `results` *)
RECURSIVE SequentialRemainingAll(_, _)
SequentialRemainingAll(list, results) ==
    IF results = <<>> THEN list
    ELSE SequentialRemainingAll(SequentialRemaining(list, Head(results)), Tail(results))

InitModes ==
    /\ MainIdle
    /\ TrapacIdle
    /\ TideworksIdle
    /\ RunIdle
    /\ \E n \in 1..MaxModeLen : m_numbers \in [1..n -> ModeIds]
    /\ m_found \in [Checkers -> SUBSET ModeIds]
    /\ m_login \in [Checkers -> BOOLEAN]
    /\ m_login[1]
    /\ m_pc = "seq"
    /\ m_idx = 1
    /\ m_remaining = m_numbers
    /\ m_seq = <<>>
    /\ m_left = Checkers
    /\ m_par = <<>>

(* one iteration of the sequential loop *)
M_SeqStep ==
    /\ m_pc = "seq"
    /\ m_idx \in Checkers
    /\ m_remaining # <<>>
    /\ LET results == Answer(m_idx, m_remaining)
       IN  /\ m_seq' = SequentialMergeAll(m_seq, results)
           /\ m_remaining' = SequentialRemainingAll(m_remaining, results)
    /\ m_idx' = m_idx + 1
    /\ UNCHANGED <<mainVars, trapacVars, tideVars, runVars, m_numbers, m_found,
                   m_login, m_pc, m_left, m_par>>

(* break, or the loop is exhausted *)
M_SeqEnd ==
    /\ m_pc = "seq"
    /\ m_idx \notin Checkers \/ m_remaining = <<>>
    /\ m_pc' = "par"
    /\ UNCHANGED <<mainVars, trapacVars, tideVars, runVars, m_numbers, m_found,
                   m_login, m_idx, m_remaining, m_seq, m_left, m_par>>

(* the parallel branch yields the future of checker s and merges its list *)
M_ParStep(s) ==
    /\ m_pc = "par"
    /\ s \in m_left
    /\ m_par' = ParallelMergeAll(m_par, Answer(s, m_numbers))
    /\ m_left' = m_left \ {s}
    /\ UNCHANGED <<mainVars, trapacVars, tideVars, runVars, m_numbers, m_found,
                   m_login, m_pc, m_idx, m_remaining, m_seq>>

(* every future was yielded *)
M_ParEnd ==
    /\ m_pc = "par"
    /\ m_left = {}
    /\ m_pc' = "done"
    /\ UNCHANGED <<mainVars, trapacVars, tideVars, runVars, m_numbers, m_found,
                   m_login, m_idx, m_remaining, m_seq, m_left, m_par>>

NextModes ==
    \/ M_SeqStep
    \/ M_SeqEnd
    \/ \E s \in Checkers : M_ParStep(s)
    \/ M_ParEnd

SpecModes == InitModes /\ [][NextModes]_vars

(* terminal s answers with a record that is not NOT FOUND when asked for X *)
AnswersNonNotFound(s, X) == (s # 1 /\ ~m_login[s]) \/ X \in m_found[s]

ModesPrecondition ==
    /\ NoDuplicates(m_numbers)
    /\ \A X \in Range(m_numbers) :
          Cardinality({ s \in Checkers : AnswersNonNotFound(s, X) }) <= 1

(* the mapping as it is output: the fields of the records, not the objects *)
Output(results) ==
    [X \in DOMAIN results |->
        [k \in DOMAIN results[X] |->
            [container_number |-> results[X][k].container_number,
             terminal |-> results[X][k].terminal]]]

=============================================================================
